---- MODULE Spec2Model ----
(***************************************************************************)
(* A model of package gologger (logger.go): the Logger record builder, its *)
(* field slice with Go's slice semantics (pointer, length, capacity over a *)
(* shared backing array), request-id contexts and Send.                    *)
(***************************************************************************)
EXTENDS Integers, Sequences, FiniteSets, TLC

(***************************************************************************)
(* State.                                                                  *)
(***************************************************************************)
VARIABLES
    heap,      \* the live backing arrays, by address
    cfg,       \* the LoggerConfig the logger was constructed from
    fs,        \* the system: whether os.MkdirAll of the log directory fails,
               \* and the clock
    reg,       \* the Logger values the program holds: log, r, a, b
    args,      \* for a and b: the pair appended by the call that returned it
    lastCall,  \* the call the step just taken made on the engine, if any
    out,       \* the entries written to each sink, while the sinks are watched
    closed,    \* the results of the Sync calls made by Close, in call order
    proc,      \* "running", "exited" (after Fatal), "panicked" (after Panic)
    gor,       \* for the goroutines a and b: position, cells stored so far
    cx         \* a context under construction and what was resolved from it

vars == << heap, cfg, fs, reg, args, lastCall, out, closed, proc, gor, cx >>

\* Bounds of the model.
MaxPairs == 4     \* a field list holds at most MaxPairs key/value pairs

MaxSends == 2     \* a watched sink receives at most MaxSends entries

MaxCloses == 2    \* Close is called at most MaxCloses times

MaxBinds == 3     \* a context has at most MaxBinds values bound

\* The content of a backing-array cell that was allocated and never written.
Nil == "<nil>"

(***************************************************************************)
(* Contexts.  A context is the chain of its WithValue bindings, outermost  *)
(* first; a key and a value carry their dynamic type, as interface values  *)
(* do.                                                                     *)
(***************************************************************************)
\* A request-id key that is a plain string.
PlainKey == [type |-> "string", name |-> "gologger-request-id"]

RequestIDKey == [type |-> "contextKey", name |-> "gologger-request-id"]

StringVal(s) == [type |-> "string", v |-> s]

NilVal == [type |-> "nil", v |-> ""]

Background == << >>

WithValue(ctx, key, val) == Append(ctx, [key |-> key, val |-> val])

\* A lookup that finds the outermost binding of the key.
ValueOutermost(ctx, key) ==
    LET at == { i \in 1..Len(ctx) : ctx[i].key = key }
    IN  IF at = { } THEN NilVal
        ELSE ctx[CHOOSE i \in at : \A j \in at : i <= j].val

RECURSIVE Value(_, _)
Value(ctx, key) ==
    IF ctx = << >> THEN NilVal
    ELSE IF ctx[Len(ctx)].key = key THEN ctx[Len(ctx)].val
    ELSE Value(SubSeq(ctx, 1, Len(ctx) - 1), key)

\* A non-string value, and a key of type string with the text of RequestIDKey.
IntVal(n) == [type |-> "int", v |-> n]

StringKey == [type |-> "string", name |-> "gologger-request-id"]

WithRequestID(ctx, requestID) == WithValue(ctx, RequestIDKey, StringVal(requestID))

\* A GetRequestID that takes the value whatever its type.
GetRequestIDAnyType(ctx) == Value(ctx, RequestIDKey).v

GetRequestID(ctx) ==
    LET x == Value(ctx, RequestIDKey)
    IN  IF x.type = "string" THEN x.v ELSE ""

(***************************************************************************)
(* Inputs of the calls.                                                    *)
(***************************************************************************)
Ctxs == { Background,
          WithRequestID(Background, "req-123"),
          WithRequestID(Background, "") }

Msgs == { "msg" }

\* The key/value pairs passed to Data.
Pairs == { << "user_id", "123" >>, << "action", "login" >> }

\* What Sync returns: success, or the error of a sink that cannot be synced.
SyncResults == { "ok", "sync /dev/stderr: invalid argument" }

\* err.Error() of the non-nil errors passed to ErrorData; Nil is the nil error.
Errs == { Nil, "test error" }

DefaultConfig ==
    [OutputMode |-> "both", LogLevel |-> "debug", LogDir |-> "logger",
     RequestIDKey |-> "request-id"]

Configs ==
    { DefaultConfig,
      [OutputMode |-> "terminal", LogLevel |-> "info", LogDir |-> "test_logs",
       RequestIDKey |-> "trace_id"],
      [OutputMode |-> "terminal", LogLevel |-> "info", LogDir |-> "test_logs",
       RequestIDKey |-> ""] }

(***************************************************************************)
(* The engine handle built from a configuration.                           *)
(***************************************************************************)
getLogLevel(level) ==
    IF level \in {"debug", "info", "warn", "error"} THEN level ELSE "debug"

\* time.Format("2006-01-02") of a reading t of the clock, which counts half
\* days from midnight of the day the program starts: the day t falls on.
Date(t) == t \div 2

\* "logger-" + time.Now().Format("2006-01-02")
prefix == << "logger-", Date(fs.now) >>

\* The rotating file writer; the file is named after the current date.
getLogWriter(logDir) ==
    [Filename   |-> << IF fs.mkdirFails THEN "." ELSE logDir, prefix, ".log" >>,
     MaxSize    |-> 10,
     MaxBackups |-> 3,
     MaxAge     |-> 28,
     Compress   |-> TRUE]

\* A handle with no core when the output mode is not recognized.
initLogWithConfigNoFallback(config) ==
    LET term  == IF config.OutputMode \in {"terminal", "both"}
                 THEN << "terminal" >> ELSE << >>
        file  == IF config.OutputMode \in {"file", "both"}
                 THEN << "file" >> ELSE << >>
    IN  [level   |-> getLogLevel(config.LogLevel),
         cores   |-> term \o file,
         writers |-> IF Len(file) = 0 THEN { }
                     ELSE { getLogWriter(config.LogDir) },
         caller  |-> TRUE]

\* The handle: the floor, the cores of the tee in order, the file core's
\* writer if there is one, and whether entries carry the caller.
initLogWithConfig(config) ==
    LET term  == IF config.OutputMode \in {"terminal", "both"}
                 THEN << "terminal" >> ELSE << >>
        file  == IF config.OutputMode \in {"file", "both"}
                 THEN << "file" >> ELSE << >>
        cores == term \o file
    IN  [level   |-> getLogLevel(config.LogLevel),
         cores   |-> IF Len(cores) = 0 THEN << "terminal" >> ELSE cores,
         writers |-> IF Len(file) = 0 THEN { }
                     ELSE { getLogWriter(config.LogDir) },
         caller  |-> TRUE]

(***************************************************************************)
(* Slices.  A slice is a header [ptr, len, cap]; h[ptr] is its backing     *)
(* array, cap cells long, in heap h, a function from the addresses of the  *)
(* live arrays.  make([]any, 0) has no cells: ptr 0, cap 0.                *)
(***************************************************************************)
EmptySlice == [ptr |-> 0, len |-> 0, cap |-> 0]

\* The elements a slice header shows in heap h.
Elems(h, s) == IF s.len = 0 THEN << >> ELSE SubSeq(h[s.ptr], 1, s.len)

\* Capacity of the array append allocates when newLen exceeds oldCap: doubled
\* (or newLen when that is more), rounded up to an allocation size class.
GrowCap(oldCap, newLen) ==
    LET doubled == oldCap + oldCap
        want    == IF newLen > doubled THEN newLen ELSE doubled
    IN  IF want <= 16 THEN want ELSE want + (want % 2)

\* An allocator that hands out the same address every time.
SamePtr(h) == 1

\* The address of a newly allocated array: the lowest one not in use.
NewPtr(h) == CHOOSE p \in 1..(Cardinality(DOMAIN h) + 1) : p \notin DOMAIN h

\* The store of x into cell i of the array at ptr.
StoreCell(h, ptr, i, x) == [h EXCEPT ![ptr] = [@ EXCEPT ![i] = x]]

\* append(s, x, y) when the capacity does not allow it in place: a new array
\* receives a copy of the elements, then x and y.  The result is [slice, heap].
Grown(h, s, x, y) ==
    LET newCap == GrowCap(s.cap, s.len + 2)
        arr    == [i \in 1..newCap |->
                     IF i <= s.len THEN h[s.ptr][i]
                     ELSE IF i = s.len + 1 THEN x
                     ELSE IF i = s.len + 2 THEN y
                     ELSE Nil]
        ptr    == NewPtr(h)
    IN  [slice |-> [ptr |-> ptr, len |-> s.len + 2, cap |-> newCap],
         heap  |-> (ptr :> arr) @@ h]

\* An append that, in place, stores over the last pair instead of after it.
AppendTwoOverLast(h, s, x, y) ==
    IF s.len + 2 <= s.cap
    THEN [slice |-> s,
          heap  |-> StoreCell(StoreCell(h, s.ptr, s.len - 1, x),
                              s.ptr, s.len, y)]
    ELSE Grown(h, s, x, y)

\* append(s, x, y): in place when the capacity allows, else into a new array.
\* The result is [slice, heap].
AppendTwo(h, s, x, y) ==
    IF s.len + 2 <= s.cap
    THEN [slice |-> [s EXCEPT !.len = s.len + 2],
          heap  |-> StoreCell(StoreCell(h, s.ptr, s.len + 1, x),
                              s.ptr, s.len + 2, y)]
    ELSE Grown(h, s, x, y)

\* The records built from r.
Branches == { "a", "b" }

Regs == { "r" } \cup Branches

Srcs == { "log" } \cup Regs

\* The field list of Logger value l in heap h.
FieldsIn(h, l) == Elems(h, l.data)

Fields(x) == FieldsIn(heap, reg[x])

\* What a caller can observe through Logger value l in heap h.
Observed(h, l) ==
    [level |-> l.level, message |-> l.message, fields |-> FieldsIn(h, l),
     hasData |-> l.hasData, ctx |-> l.ctx, requestIDKey |-> l.requestIDKey]

NoCall ==
    [from |-> "", level |-> "", msg |-> "", fields |-> << >>,
     structured |-> FALSE]

\* A constructor that takes the configured key as it is.
NewLoggerWithConfigAsIs(config) ==
    [log          |-> initLogWithConfig(config),
     ctx          |-> Background,
     level        |-> "",
     message      |-> "",
     data         |-> EmptySlice,
     hasData      |-> FALSE,
     requestIDKey |-> config.RequestIDKey]

\* A constructor that binds the logger to a context that carries an id.
NewLoggerWithConfigBound(config) ==
    [log          |-> initLogWithConfig(config),
     ctx          |-> WithRequestID(Background, "req-123"),
     level        |-> "",
     message      |-> "",
     data         |-> EmptySlice,
     hasData      |-> FALSE,
     requestIDKey |-> IF config.RequestIDKey = "" THEN "request-id"
                      ELSE config.RequestIDKey]

NewLoggerWithConfig(config) ==
    [log          |-> initLogWithConfig(config),
     ctx          |-> Background,
     level        |-> "",
     message      |-> "",
     data         |-> EmptySlice,
     hasData      |-> FALSE,
     requestIDKey |-> IF config.RequestIDKey = "" THEN "request-id"
                      ELSE config.RequestIDKey]

NewLogger == NewLoggerWithConfig(DefaultConfig)

\* No entry written to either sink and no log file opened; the sinks are
\* watched or not.
NoOutput(watched) ==
    [on |-> watched, terminal |-> << >>, file |-> << >>, files |-> { }]

\* No value bound, no GetRequestID call made.
NoContext == [ctx |-> Background, parent |-> Background, got |-> << >>]

\* The state after log := NewLoggerWithConfig(config), for a configuration
\* of configs, an outcome of os.MkdirAll of mkdirs and a reading of the clock
\* of clocks.
StartAt(configs, mkdirs, watched, clocks) ==
    /\ heap = << >>
    /\ cfg \in configs
    /\ fs \in [mkdirFails : mkdirs, now : clocks]
    /\ reg = [x \in Srcs |-> NewLoggerWithConfig(cfg)]
    /\ args = [x \in Branches |-> << >>]
    /\ lastCall = NoCall
    /\ out = NoOutput(watched)
    /\ closed = << >>
    /\ proc = "running"
    /\ gor = [x \in Branches |-> [pc |-> "idle", wrote |-> {}]]
    /\ cx = NoContext

\* The same, at midnight.
Start(configs, mkdirs, watched) == StartAt(configs, mkdirs, watched, { 0 })

Init == Start(Configs, { FALSE }, FALSE)

\* The arrays of h that a record held before the call, or the record l it
\* returned, refers to; the others are garbage and are collected.
Live(h, l) ==
    LET ptrs == { reg[x].data.ptr : x \in Srcs } \cup { l.data.ptr }
    IN  [p \in (DOMAIN h) \cap ptrs |-> h[p]]

\* dst = <the record l a call returned>, where the call left heap h and
\* appended the pair added (none: << >>).
Return(dst, l, h, added) ==
    /\ reg' = [reg EXCEPT ![dst] = l]
    /\ args' = IF dst \in Branches THEN [args EXCEPT ![dst] = added] ELSE args
    /\ heap' = Live(h, l)
    /\ lastCall' = NoCall
    /\ UNCHANGED << cfg, fs, out, closed, proc, gor, cx >>

\* A WithContext that rebinds the context and keeps the rest of the record.
WithContextKeeps(dst, src, ctx) ==
    /\ proc = "running"
    /\ Return(dst, [reg[src] EXCEPT !.ctx = ctx], heap, << >>)

\* The record l.WithContext(ctx) returns.
Rebound(l, ctx) ==
    [log          |-> l.log,
     ctx          |-> ctx,
     level        |-> "",
     message      |-> "",
     data         |-> EmptySlice,
     hasData      |-> FALSE,
     requestIDKey |-> l.requestIDKey]

WithContext(dst, src, ctx) ==
    /\ proc = "running"
    /\ Return(dst, Rebound(reg[src], ctx), heap, << >>)

Debug(dst, src, msg) ==
    /\ proc = "running"
    /\ Return(dst, [reg[src] EXCEPT !.level = "debug", !.message = msg], heap,
              << >>)

Info(dst, src, msg) ==
    /\ proc = "running"
    /\ Return(dst, [reg[src] EXCEPT !.level = "info", !.message = msg], heap,
              << >>)

\* A Warn that sets the level of Info.
WarnAsInfo(dst, src, msg) ==
    /\ proc = "running"
    /\ Return(dst, [reg[src] EXCEPT !.level = "info", !.message = msg], heap,
              << >>)

Warn(dst, src, msg) ==
    /\ proc = "running"
    /\ Return(dst, [reg[src] EXCEPT !.level = "warn", !.message = msg], heap,
              << >>)

Error(dst, src, msg) ==
    /\ proc = "running"
    /\ Return(dst, [reg[src] EXCEPT !.level = "error", !.message = msg], heap,
              << >>)

\* A Fatal that ends the process as it sets the level.
FatalExits(dst, src, msg) ==
    /\ proc = "running"
    /\ reg' = [reg EXCEPT ![dst] =
                  [reg[src] EXCEPT !.level = "fatal", !.message = msg]]
    /\ heap' = Live(heap, reg[src])
    /\ lastCall' = NoCall
    /\ proc' = "exited"
    /\ UNCHANGED << cfg, fs, args, out, closed, gor, cx >>

Fatal(dst, src, msg) ==
    /\ proc = "running"
    /\ Return(dst, [reg[src] EXCEPT !.level = "fatal", !.message = msg], heap,
              << >>)

Panic(dst, src, msg) ==
    /\ proc = "running"
    /\ Return(dst, [reg[src] EXCEPT !.level = "panic", !.message = msg], heap,
              << >>)

\* A Data that appends and leaves hasData as it was.
AppendedNoFlag(l, h, key, value) ==
    LET res == AppendTwo(h, l.data, key, value)
    IN  [logger |-> [l EXCEPT !.data = res.slice], heap |-> res.heap]

\* l.data = append(l.data, key, value); l.hasData = true; return l
Appended(l, h, key, value) ==
    LET res == AppendTwo(h, l.data, key, value)
    IN  [logger |-> [l EXCEPT !.data = res.slice, !.hasData = TRUE],
         heap   |-> res.heap]

\* The field list stays within the model's bound.
CanAppend(l) == l.data.len + 2 <= 2 * MaxPairs

Data(dst, src, key, value) ==
    /\ proc = "running"
    /\ CanAppend(reg[src])
    /\ LET res == Appended(reg[src], heap, key, value)
       IN  Return(dst, res.logger, res.heap, << key, value >>)

ErrorData(dst, src, err) ==
    /\ proc = "running"
    /\ IF err # Nil
       THEN /\ CanAppend(reg[src])
            /\ LET res == Appended(reg[src], heap, "error", err)
               IN  Return(dst, res.logger, res.heap, << "error", err >>)
       ELSE Return(dst, reg[src], heap, << >>)

\* A list with the correlation pair after l.data.
LogDataLast(h, l) ==
    LET requestID == GetRequestID(l.ctx)
    IN  FieldsIn(h, l)
        \o (IF requestID # "" THEN << l.requestIDKey, requestID >> ELSE << >>)

\* A list that starts with the request id alone, without its key.
LogDataNoKey(h, l) ==
    LET requestID == GetRequestID(l.ctx)
    IN  (IF requestID # "" THEN << requestID >> ELSE << >>) \o FieldsIn(h, l)

\* The list Send hands to the engine: the correlation pair, then l.data.
LogData(h, l) ==
    LET requestID == GetRequestID(l.ctx)
    IN  (IF requestID # "" THEN << l.requestIDKey, requestID >> ELSE << >>)
        \o FieldsIn(h, l)

\* A choice of the engine call by the hasData flag.
HasStructuredDataByFlag(l, logData) == l.hasData

\* hasStructuredData := len(logData) > 0
HasStructuredData(l, logData) == Len(logData) > 0

\* The engine's order of the levels.
LevelNum(level) ==
    CASE level = "debug" -> 0
      [] level = "info"  -> 1
      [] level = "warn"  -> 2
      [] level = "error" -> 3
      [] level = "panic" -> 4
      [] level = "fatal" -> 5

\* A level check that lets nothing below error through, whatever the floor.
LevelEnabledFromError(log, level) == LevelNum(level) >= LevelNum("error")

\* Whether the cores of log accept an entry at level.
LevelEnabled(log, level) == LevelNum(level) >= LevelNum(log.level)

\* The entry the engine makes of a call.
Entry(log, call) ==
    [level |-> call.level, msg |-> call.msg, fields |-> call.fields,
     caller |-> log.caller]

\* A tee that writes to its first core only.
WriteFirstCore(log, call, o) ==
    IF o.on /\ LevelEnabled(log, call.level)
    THEN [o EXCEPT ![log.cores[1]] = Append(@, Entry(log, call))]
    ELSE o

\* The log files open after a write to sink s through log: the file writer
\* opens the file of its Filename when it is written to.
Opened(log, s, files) ==
    IF s = "file" THEN files \cup { w.Filename : w \in log.writers } ELSE files

\* A tee whose file writer names its file when it writes.
WriteToday(log, call, o) ==
    IF o.on /\ LevelEnabled(log, call.level)
    THEN [s \in DOMAIN o |->
             IF s \in { log.cores[i] : i \in 1..Len(log.cores) }
             THEN Append(o[s], Entry(log, call))
             ELSE IF s = "files" /\ log.writers # { }
             THEN o[s] \cup { getLogWriter(cfg.LogDir).Filename }
             ELSE o[s]]
    ELSE o

\* The tee: every core of log that accepts the entry writes it to its sink.
\* o is the output before the call, the result the output after it.
Write(log, call, o) ==
    IF o.on /\ LevelEnabled(log, call.level)
    THEN [s \in DOMAIN o |->
             IF s \in { log.cores[i] : i \in 1..Len(log.cores) }
             THEN Append(o[s], Entry(log, call))
             ELSE IF s = "files" /\ log.writers # { }
             THEN Opened(log, "file", o[s])
             ELSE o[s]]
    ELSE o

\* The sinks hold at most MaxSends entries each while they are watched.
CanWrite == \A s \in {"terminal", "file"} : Len(out[s]) < MaxSends

\* A Send that does nothing when the call before it was a Send of src.
SendOnce(src) ==
    /\ proc = "running"
    /\ CanWrite
    /\ lastCall.from # src
    /\ LET l       == reg[src]
           logData == LogData(heap, l)
           call    == [from       |-> src,
                       level      |-> l.level,
                       msg        |-> l.message,
                       fields     |-> logData,
                       structured |-> HasStructuredData(l, logData)]
       IN  IF l.level \in {"debug", "info", "warn", "error", "fatal", "panic"}
           THEN /\ lastCall' = call
                /\ out' = Write(l.log, call, out)
                /\ proc' = CASE l.level = "fatal" -> "exited"
                             [] l.level = "panic" -> "panicked"
                             [] OTHER -> "running"
           ELSE /\ lastCall' = NoCall
                /\ UNCHANGED << out, proc >>
    /\ gor' = IF src \in Branches THEN [gor EXCEPT ![src].pc = "done"] ELSE gor
    /\ UNCHANGED << heap, cfg, fs, reg, args, closed, cx >>

\* A Send that returns normally after a fatal or panic entry.
SendReturns(src) ==
    /\ proc = "running"
    /\ CanWrite
    /\ LET l       == reg[src]
           logData == LogData(heap, l)
           call    == [from       |-> src,
                       level      |-> l.level,
                       msg        |-> l.message,
                       fields     |-> logData,
                       structured |-> HasStructuredData(l, logData)]
       IN  IF l.level \in {"debug", "info", "warn", "error", "fatal", "panic"}
           THEN /\ lastCall' = call
                /\ out' = Write(l.log, call, out)
           ELSE /\ lastCall' = NoCall
                /\ UNCHANGED out
    /\ gor' = IF src \in Branches THEN [gor EXCEPT ![src].pc = "done"] ELSE gor
    /\ UNCHANGED << heap, cfg, fs, reg, args, closed, proc, cx >>

\* A Send whose switch has a default case that logs at level info.
SendDefaultsInfo(src) ==
    /\ proc = "running"
    /\ CanWrite
    /\ LET l       == reg[src]
           logData == LogData(heap, l)
           call    == [from       |-> src,
                       level      |-> IF l.level = "" THEN "info" ELSE l.level,
                       msg        |-> l.message,
                       fields     |-> logData,
                       structured |-> HasStructuredData(l, logData)]
       IN  /\ lastCall' = call
           /\ out' = Write(l.log, call, out)
           /\ proc' = CASE l.level = "fatal" -> "exited"
                        [] l.level = "panic" -> "panicked"
                        [] OTHER -> "running"
    /\ gor' = IF src \in Branches THEN [gor EXCEPT ![src].pc = "done"] ELSE gor
    /\ UNCHANGED << heap, cfg, fs, reg, args, closed, cx >>

Send(src) ==
    /\ proc = "running"
    /\ CanWrite
    /\ LET l       == reg[src]
           logData == LogData(heap, l)
           call    == [from       |-> src,
                       level      |-> l.level,
                       msg        |-> l.message,
                       fields     |-> logData,
                       structured |-> HasStructuredData(l, logData)]
       IN  IF l.level \in {"debug", "info", "warn", "error", "fatal", "panic"}
           THEN /\ lastCall' = call
                /\ out' = Write(l.log, call, out)
                /\ proc' = CASE l.level = "fatal" -> "exited"
                             [] l.level = "panic" -> "panicked"
                             [] OTHER -> "running"
           ELSE /\ lastCall' = NoCall
                /\ UNCHANGED << out, proc >>
    /\ gor' = IF src \in Branches THEN [gor EXCEPT ![src].pc = "done"] ELSE gor
    /\ UNCHANGED << heap, cfg, fs, reg, args, closed, cx >>

\* A Close that lets the failure of Sync reach the caller.
ClosePropagates(src) ==
    /\ proc = "running"
    /\ Len(closed) < MaxCloses
    /\ \E err \in SyncResults :
          /\ closed' = Append(closed, err)
          /\ proc' = IF err = "ok" THEN proc ELSE "panicked"
    /\ lastCall' = NoCall
    /\ UNCHANGED << heap, cfg, fs, reg, args, out, gor, cx >>

\* _ = l.log.Sync(): the result is dropped.
Close(src) ==
    /\ proc = "running"
    /\ Len(closed) < MaxCloses
    /\ \E err \in SyncResults : closed' = Append(closed, err)
    /\ lastCall' = NoCall
    /\ UNCHANGED << heap, cfg, fs, reg, args, out, proc, gor, cx >>

\* The builder calls dst = src.<method>(<arguments>).
Build(dst, src) ==
    \/ \E ctx \in Ctxs : WithContext(dst, src, ctx)
    \/ \E msg \in Msgs :
          \/ Debug(dst, src, msg)
          \/ Info(dst, src, msg)
          \/ Warn(dst, src, msg)
          \/ Error(dst, src, msg)
          \/ Fatal(dst, src, msg)
          \/ Panic(dst, src, msg)
    \/ \E p \in Pairs : Data(dst, src, p[1], p[2])
    \/ \E err \in Errs : ErrorData(dst, src, err)

\* A program that builds one chain in r, from log or from r, and sends it.
Next ==
    \/ \E src \in {"log", "r"} : Build("r", src)
    \/ Send("r")

Spec == Init /\ [][Next]_vars

\* A program that builds a record in r and then branches the chain:
\*   r := log.<calls>;  a := r.Data(k1, v1);  b := r.Data(k2, v2)
\* with the two branches taken in either order.
BuildBase ==
    /\ \A x \in Branches : args[x] = << >>
    /\ \E src \in {"log", "r"} :
          \/ WithContext("r", src, Background)
          \/ \E msg \in Msgs : Info("r", src, msg)
          \/ \E p \in Pairs : Data("r", src, p[1], p[2])
          \/ \E err \in Errs : ErrorData("r", src, err)

Branch(x) ==
    /\ args[x] = << >>
    /\ \E p \in Pairs : Data(x, "r", p[1], p[2])

NextBranch == BuildBase \/ \E x \in Branches : Branch(x)

\* The logger of NewLogger().
InitBranch == Init /\ cfg = DefaultConfig

SpecBranch == InitBranch /\ [][NextBranch]_vars

\* A program that builds a record in r and hands it to two goroutines; each
\* extends it with its own calls and sends the result:
\*   r := log.<calls>;  go func() { r.Data(k, v)...Send() }()   (twice)
\* The append of a call that fits the capacity is two stores, one per cell,
\* and the goroutines' stores interleave.
MaxOwn == 2

\* The calls goroutine x has returned from.
Calls(x) ==
    Len(args[x]) \div 2 - (IF gor[x].pc \in {"key", "value"} THEN 1 ELSE 0)

\* The receiver of goroutine x's next call, or of the one it is in.
Cur(x) == IF Calls(x) = 0 THEN reg["r"] ELSE reg[x]

\* Goroutine x enters l.Data(key, value), or l.ErrorData(err) with a non-nil
\* err.
CallOn(l, x, key, value) ==
    /\ proc = "running"
    /\ gor[x].pc = "idle"
    /\ CanAppend(l)
    /\ args' = [args EXCEPT ![x] = @ \o << key, value >>]
    /\ IF l.data.len + 2 <= l.data.cap
       THEN /\ gor' = [gor EXCEPT ![x].pc = "key"]
            /\ UNCHANGED << heap, reg >>
       ELSE LET res == Appended(l, heap, key, value)
                d   == res.logger.data
            IN  /\ heap' = res.heap
                /\ reg' = [reg EXCEPT ![x] = res.logger]
                /\ gor' = [gor EXCEPT ![x].wrote =
                              @ \cup { << d.ptr, d.len - 1 >>,
                                       << d.ptr, d.len >> }]
    /\ lastCall' = NoCall
    /\ UNCHANGED << cfg, fs, out, closed, proc, cx >>

\* The store of the key into the first free cell of the receiver l.
StoreKeyOn(l, x) ==
    /\ proc = "running"
    /\ gor[x].pc = "key"
    /\ LET d == l.data
       IN  /\ heap' = StoreCell(heap, d.ptr, d.len + 1, args[x][Len(args[x]) - 1])
           /\ gor' = [gor EXCEPT ![x].pc = "value",
                                 ![x].wrote = @ \cup { << d.ptr, d.len + 1 >> }]
    /\ lastCall' = NoCall
    /\ UNCHANGED << cfg, fs, reg, args, out, closed, proc, cx >>

\* The store of the value into the second free cell, and the return.
StoreValueOn(l, x) ==
    /\ proc = "running"
    /\ gor[x].pc = "value"
    /\ LET d == l.data
       IN  /\ heap' = StoreCell(heap, d.ptr, d.len + 2, args[x][Len(args[x])])
           /\ reg' = [reg EXCEPT ![x] =
                         [l EXCEPT !.data = [d EXCEPT !.len = d.len + 2],
                                   !.hasData = TRUE]]
           /\ gor' = [gor EXCEPT ![x].pc = "idle",
                                 ![x].wrote = @ \cup { << d.ptr, d.len + 2 >> }]
    /\ lastCall' = NoCall
    /\ UNCHANGED << cfg, fs, args, out, closed, proc, cx >>

\* Goroutine x calls Data or ErrorData on the record it holds, or on r when
\* it has made no call yet.
GoCall(x, key, value) ==
    /\ Calls(x) < MaxOwn
    /\ CallOn(Cur(x), x, key, value)

\* The pair each goroutine passes to Data.
OwnPair == [a |-> << "user_id", "123" >>, b |-> << "action", "login" >>]

GoData(x) ==
    GoCall(x, OwnPair[x][1], OwnPair[x][2])

GoErrorData(x) ==
    \E err \in Errs \ { Nil } : GoCall(x, "error", err)

GoStoreKey(x) == StoreKeyOn(Cur(x), x)

GoStoreValue(x) == StoreValueOn(Cur(x), x)

GoSend(x) ==
    /\ gor[x].pc = "idle"
    /\ Calls(x) >= 1
    /\ Send(x)

\* The calls that build the shared record.
BuildShared ==
    /\ \A x \in Branches : args[x] = << >>
    /\ \E src \in {"log", "r"} :
          \/ \E msg \in Msgs : Info("r", src, msg)
          \/ \E p \in Pairs : Data("r", src, p[1], p[2])

NextConc ==
    \/ BuildShared
    \/ \E x \in Branches :
          \/ GoData(x)
          \/ GoErrorData(x)
          \/ GoStoreKey(x)
          \/ GoStoreValue(x)
          \/ GoSend(x)

SpecConc == InitBranch /\ [][NextConc]_vars

\* A program that sends records through loggers of every output mode and
\* floor, with the sinks watched:
\*   log := NewLoggerWithConfig(config)
\*   r := log.WithContext(ctx); r = r.<Level>(msg); r.Send(); ...
OutputModes == { "terminal", "file", "both", "" }

LogLevels == { "debug", "info", "warn", "error", "", "verbose" }

SinkConfigs ==
    { [OutputMode |-> m, LogLevel |-> lv, LogDir |-> "test_logs",
       RequestIDKey |-> "request-id"] : m \in OutputModes, lv \in LogLevels }

InitSinks == Start(SinkConfigs, { FALSE }, TRUE)

NextSinks ==
    \/ \E ctx \in Ctxs : WithContext("r", "log", ctx)
    \/ \E msg \in Msgs :
          \/ Debug("r", "r", msg)
          \/ Info("r", "r", msg)
          \/ Warn("r", "r", msg)
          \/ Error("r", "r", msg)
          \/ Fatal("r", "r", msg)
          \/ Panic("r", "r", msg)
    \/ Send("r")

SpecSinks == InitSinks /\ [][NextSinks]_vars

\* A program that sends records and closes the logger, any number of times:
\*   log := NewLogger(); log.Info(msg).Send(); log.Close(); ...
InitClose == Start({ DefaultConfig }, { FALSE }, TRUE)

NextClose ==
    \/ \E msg \in Msgs :
          \/ Info("r", "log", msg)
          \/ Error("r", "log", msg)
    \/ Send("r")
    \/ Close("log")

SpecClose == InitClose /\ [][NextClose]_vars

\* A program that constructs a logger from a configuration as the README and
\* the tests write it, with ShowCaller and LogRotation set, whether or not
\* the log directory can be created, and sends records:
\*   log := NewLoggerWithConfig(config); r := log.WithContext(ctx)
\*   r = r.Info(msg); r.Send()
\* A LogRotation is << >> when nil, << policy >> when set.
Rotations ==
    { << >>,
      << [MaxSize |-> 20, MaxBackups |-> 0, MaxAge |-> 0, Compress |-> FALSE] >>,
      << [MaxSize |-> 5, MaxBackups |-> 5, MaxAge |-> 14, Compress |-> FALSE] >> }

FullConfigs ==
    { [OutputMode |-> m, LogLevel |-> lv, LogDir |-> "logs",
       RequestIDKey |-> "request-id", ShowCaller |-> sc, LogRotation |-> rot] :
        m \in OutputModes \cup { "stdout" }, lv \in { "info", "verbose" },
        sc \in BOOLEAN, rot \in Rotations }

InitConfig == Start(FullConfigs, BOOLEAN, TRUE)

NextConfig ==
    \/ \E ctx \in Ctxs : WithContext("r", "log", ctx)
    \/ \E msg \in Msgs : Info("r", "r", msg)
    \/ Send("r")

SpecConfig == InitConfig /\ [][NextConfig]_vars

\* A program that binds values to a context and resolves the request id:
\*   ctx := context.Background(); ctx = WithRequestID(ctx, id) or
\*   ctx = context.WithValue(ctx, key, val); ...; GetRequestID(ctx)
RequestIDs == { "req-123", "trace-123", "" }

\* Values other callers bind: a non-string under RequestIDKey, a string
\* under a key of another type.
ForeignBinds ==
    { << RequestIDKey, IntVal("42") >>, << StringKey, StringVal("other") >> }

BindRequestID(id) ==
    /\ Len(cx.ctx) < MaxBinds
    /\ cx' = [ctx |-> WithRequestID(cx.ctx, id), parent |-> cx.ctx,
              got |-> << >>]
    /\ UNCHANGED << heap, cfg, fs, reg, args, lastCall, out, closed, proc, gor >>

BindValue(key, val) ==
    /\ Len(cx.ctx) < MaxBinds
    /\ cx' = [ctx |-> WithValue(cx.ctx, key, val), parent |-> cx.ctx,
              got |-> << >>]
    /\ UNCHANGED << heap, cfg, fs, reg, args, lastCall, out, closed, proc, gor >>

Resolve ==
    /\ cx' = [cx EXCEPT !.got = << GetRequestID(cx.ctx) >>]
    /\ UNCHANGED << heap, cfg, fs, reg, args, lastCall, out, closed, proc, gor >>

NextCtx ==
    \/ \E id \in RequestIDs : BindRequestID(id)
    \/ \E b \in ForeignBinds : BindValue(b[1], b[2])
    \/ Resolve

SpecCtx == InitBranch /\ [][NextCtx]_vars

\* A program that starts chains on the logger with any builder method and
\* sets levels on them, with the sinks watched; it sends chains until one is
\* written and goes on building chains that it does not send:
\*   r := log.<builder>(...); r = r.<Level>(msg); r.Send(); ...
\*   r = log.<builder>(...); r = r.Fatal(msg); ...
SendFirst ==
    /\ out.terminal = << >>
    /\ out.file = << >>
    /\ Send("r")

NextEmit ==
    \/ Build("r", "log")
    \/ \E msg \in Msgs :
          \/ Debug("r", "r", msg)
          \/ Info("r", "r", msg)
          \/ Warn("r", "r", msg)
          \/ Error("r", "r", msg)
          \/ Fatal("r", "r", msg)
          \/ Panic("r", "r", msg)
    \/ SendFirst

SpecEmit == InitClose /\ [][NextEmit]_vars

\* A program whose goroutines a and b each build a record of their own on
\* the shared logger and send it:
\*   go func() { log.WithContext(ctx).<Level>(msg).Send() }()   (twice)
\* Send makes one call on the engine; the tee hands the entry to its cores
\* in order, and each core that accepts it makes one Write call on its sink.
\* The terminal sink is zapcore.Lock(os.Stderr) and the file sink a
\* lumberjack.Logger: each holds its mutex for the length of the Write call.
\* A Write call is modelled as the store of the two halves of the encoded
\* entry, so that a write another write cuts into can be told from a whole
\* one.
BuildOwn(x) ==
    /\ gor[x].pc = "idle"
    /\ \/ \E ctx \in Ctxs : WithContext(x, "log", ctx)
       \/ \E msg \in Msgs :
             \/ Debug(x, x, msg)
             \/ Info(x, x, msg)
             \/ Warn(x, x, msg)
             \/ Error(x, x, msg)

\* The core goroutine x's Send is at, by its position.
CoreAt(pc) == IF pc \in { "core1", "core1w" } THEN 1 ELSE 2

\* The sink the Write call of goroutine x is in, if it is in one.
Writing(x) ==
    IF gor[x].pc \in { "core1w", "core2w" }
    THEN { reg[x].log.cores[CoreAt(gor[x].pc)] } ELSE { }

\* The mutex of sink s is held.
Locked(s) == \E y \in Branches : s \in Writing(y)

\* The call Send of goroutine x makes on the engine.
CallOf(x) ==
    LET l       == reg[x]
        logData == LogData(heap, l)
    IN  [from       |-> x,
         level      |-> l.level,
         msg        |-> l.message,
         fields     |-> logData,
         structured |-> HasStructuredData(l, logData)]

\* One half of the bytes of the entry of goroutine x.
Chunk(x, part) ==
    [by |-> x, part |-> part, entry |-> Entry(reg[x].log, CallOf(x))]

\* Goroutine x calls Send: the engine call, and the level check of the cores.
GoSendEnter(x) ==
    /\ proc = "running"
    /\ gor[x].pc = "idle"
    /\ IF reg[x].level \in { "debug", "info", "warn", "error" }
       THEN /\ lastCall' = CallOf(x)
            /\ gor' = [gor EXCEPT ![x].pc =
                          IF LevelEnabled(reg[x].log, reg[x].level)
                          THEN "core1" ELSE "done"]
       ELSE /\ reg[x].level = ""
            /\ lastCall' = NoCall
            /\ gor' = [gor EXCEPT ![x].pc = "done"]
    /\ UNCHANGED << heap, cfg, fs, reg, args, out, closed, proc, cx >>

\* A Write call that does not take the mutex of the sink.
GoLockWriteUnlocked(x) ==
    /\ gor[x].pc \in { "core1", "core2" }
    /\ LET s == reg[x].log.cores[CoreAt(gor[x].pc)]
       IN  /\ out' = [out EXCEPT ![s] = Append(@, Chunk(x, 1)),
                                !.files = Opened(reg[x].log, s, @)]
           /\ gor' = [gor EXCEPT ![x].pc =
                         IF CoreAt(gor[x].pc) = 1 THEN "core1w" ELSE "core2w"]
    /\ lastCall' = NoCall
    /\ UNCHANGED << heap, cfg, fs, reg, args, closed, proc, cx >>

\* The Write call of the core takes the mutex of its sink and stores the
\* first half of the entry.
GoLockWrite(x) ==
    /\ gor[x].pc \in { "core1", "core2" }
    /\ LET s == reg[x].log.cores[CoreAt(gor[x].pc)]
       IN  /\ ~Locked(s)
           /\ out' = [out EXCEPT ![s] = Append(@, Chunk(x, 1)),
                                !.files = Opened(reg[x].log, s, @)]
           /\ gor' = [gor EXCEPT ![x].pc =
                         IF CoreAt(gor[x].pc) = 1 THEN "core1w" ELSE "core2w"]
    /\ lastCall' = NoCall
    /\ UNCHANGED << heap, cfg, fs, reg, args, closed, proc, cx >>

\* It stores the second half and releases the mutex; the tee goes on to the
\* next core, or Send returns.
GoWriteUnlock(x) ==
    /\ gor[x].pc \in { "core1w", "core2w" }
    /\ LET i == CoreAt(gor[x].pc)
           s == reg[x].log.cores[i]
       IN  /\ out' = [out EXCEPT ![s] = Append(@, Chunk(x, 2))]
           /\ gor' = [gor EXCEPT ![x].pc =
                         IF i < Len(reg[x].log.cores) THEN "core2" ELSE "done"]
    /\ lastCall' = NoCall
    /\ UNCHANGED << heap, cfg, fs, reg, args, closed, proc, cx >>

NextSend ==
    \E x \in Branches :
        \/ BuildOwn(x)
        \/ GoSendEnter(x)
        \/ GoLockWrite(x)
        \/ GoWriteUnlock(x)

SpecSend == InitSinks /\ [][NextSend]_vars

\* A program that runs over midnight: the logger is constructed in the
\* first day, the clock advances, and records are sent before and after:
\*   log := NewLoggerWithConfig(config)
\*   r := log.WithContext(ctx); r = r.<Level>(msg); r.Send(); ...
MaxTicks == 4

\* Half a day passes.
Tick ==
    /\ fs.now < MaxTicks
    /\ fs' = [fs EXCEPT !.now = @ + 1]
    /\ lastCall' = NoCall
    /\ UNCHANGED << heap, cfg, reg, args, out, closed, proc, gor, cx >>

InitDate == StartAt(SinkConfigs, BOOLEAN, TRUE, { 0, 1 })

NextDate ==
    \/ \E ctx \in Ctxs : WithContext("r", "log", ctx)
    \/ \E msg \in Msgs :
          \/ Info("r", "r", msg)
          \/ Error("r", "r", msg)
    \/ Send("r")
    \/ Tick

SpecDate == InitDate /\ [][NextDate]_vars

\* A program in which a context passes through code that binds values under
\* string keys and through WithRequestID, and is then logged with:
\*   ctx = context.WithValue(ctx, "gologger-request-id", "other"); ...
\*   ctx = WithRequestID(ctx, id); ...
\*   r := log.WithContext(ctx); r = r.Info(msg); r.Send()
\* The string keys: the text of RequestIDKey, and the name of the log field.
StringKeys == { StringKey, [type |-> "string", name |-> "request-id"] }

\* The bindings made before the record is built.
KeyBinds ==
    { << RequestIDKey, StringVal(id) >> : id \in RequestIDs }
        \cup { << k, StringVal("other") >> : k \in StringKeys }

BindFirst(key, val) ==
    /\ reg["r"] = reg["log"]
    /\ BindValue(key, val)

NextKey ==
    \/ \E b \in KeyBinds : BindFirst(b[1], b[2])
    \/ Resolve
    \/ WithContext("r", "log", cx.ctx)
    \/ \E msg \in Msgs : Info("r", "r", msg)
    \/ Send("r")

SpecKey == InitBranch /\ [][NextKey]_vars

\* A program that builds one chain with any builder methods and sends it
\* once, with the sinks watched:
\*   a := log.<builder>(...); a = a.<builder>(...); ...; a.Send()
BuildChain(src) ==
    /\ gor["a"].pc = "idle"
    /\ Build("a", src)

\* a.Send(), after which a's position is "done".
SendChain ==
    /\ gor["a"].pc = "idle"
    /\ Send("a")

NextChain ==
    \/ \E src \in {"log", "a"} : BuildChain(src)
    \/ SendChain

SpecChain == InitClose /\ [][NextChain]_vars

\* A program that builds the same chain twice, once on the logger and once
\* on a record bound to the background context, and sends both:
\*   a := log;                                  a = a.<call>; ...; a.Send()
\*   b := log.WithContext(context.Background()); b = b.<call>; ...; b.Send()
\* The calls of a chain: the level setters, Data and ErrorData.
ChainCalls ==
    { [op |-> "Level", level |-> lv, msg |-> msg] :
          lv \in { "debug", "info", "warn", "error", "fatal", "panic" },
          msg \in Msgs }
        \cup { [op |-> "Data", key |-> p[1], value |-> p[2]] : p \in Pairs }
        \cup { [op |-> "ErrorData", err |-> err] : err \in Errs }

\* The record and the heap after the call c on record l in heap h.
Applied(l, h, c) ==
    CASE c.op = "Level" ->
             [logger |-> [l EXCEPT !.level = c.level, !.message = c.msg],
              heap   |-> h]
      [] c.op = "Data" -> Appended(l, h, c.key, c.value)
      [] c.op = "ErrorData" ->
             IF c.err # Nil THEN Appended(l, h, "error", c.err)
             ELSE [logger |-> l, heap |-> h]

\* a := log; b := log.WithContext(context.Background())
TwinStart ==
    /\ proc = "running"
    /\ reg' = [reg EXCEPT !["a"] = reg["log"],
                          !["b"] = Rebound(reg["log"], Background)]
    /\ lastCall' = NoCall
    /\ UNCHANGED << heap, cfg, fs, args, out, closed, proc, gor, cx >>

\* a = a.<call>; b = b.<call>, the same call with the same arguments.
TwinCall(c) ==
    /\ proc = "running"
    /\ c.op \in { "Data", "ErrorData" } =>
          CanAppend(reg["a"]) /\ CanAppend(reg["b"])
    /\ LET ra   == Applied(reg["a"], heap, c)
           rb   == Applied(reg["b"], ra.heap, c)
           ptrs == { reg[x].data.ptr : x \in Srcs }
                       \cup { ra.logger.data.ptr, rb.logger.data.ptr }
       IN  /\ reg' = [reg EXCEPT !["a"] = ra.logger, !["b"] = rb.logger]
           /\ heap' = [p \in (DOMAIN rb.heap) \cap ptrs |-> rb.heap[p]]
    /\ lastCall' = NoCall
    /\ UNCHANGED << cfg, fs, args, out, closed, proc, gor, cx >>

NextTwin ==
    \/ TwinStart
    \/ \E c \in ChainCalls : TwinCall(c)
    \/ \E x \in Branches : Send(x)

SpecTwin == Init /\ [][NextTwin]_vars

\* A program whose goroutines a and b each start a chain of their own with
\* WithContext on the shared logger, extend it and send it:
\*   go func() { log.WithContext(ctx).Info(msg).Data(k, v)...Send() }()
\* (twice).  The stores of an append in place interleave as above.
\* The context of the request each goroutine serves.
OwnCtx == [a |-> WithRequestID(Background, "req-123"), b |-> Background]

OwnStart(x) ==
    /\ gor[x].pc = "idle"
    /\ args[x] = << >>
    /\ WithContext(x, "log", OwnCtx[x])

OwnInfo(x) ==
    /\ gor[x].pc = "idle"
    /\ args[x] = << >>
    /\ \E msg \in Msgs : Info(x, x, msg)

OwnData(x) == CallOn(reg[x], x, OwnPair[x][1], OwnPair[x][2])

\* ErrorData, as the first call after the level setter.
OwnErrorData(x) ==
    /\ args[x] = << >>
    /\ \E err \in Errs \ { Nil } : CallOn(reg[x], x, "error", err)

OwnStoreKey(x) == StoreKeyOn(reg[x], x)

OwnStoreValue(x) == StoreValueOn(reg[x], x)

OwnSend(x) ==
    /\ gor[x].pc = "idle"
    /\ Send(x)

NextOwn ==
    \E x \in Branches :
        \/ OwnStart(x)
        \/ OwnInfo(x)
        \/ OwnData(x)
        \/ OwnErrorData(x)
        \/ OwnStoreKey(x)
        \/ OwnStoreValue(x)
        \/ OwnSend(x)

SpecOwn == InitBranch /\ [][NextOwn]_vars

(***************************************************************************)
(* Claims.                                                                 *)
(***************************************************************************)

\* C1: branching a chain yields independent records: once a = r.Data(k1, v1)
\* and b = r.Data(k2, v2) are built from the same record r, in either order,
\* a's field list is r's fields followed by (k1, v1) and b's is r's fields
\* followed by (k2, v2).
C1_BranchesIndependent ==
    \A x \in Branches :
        args[x] # << >> => Fields(x) = Fields("r") \o args[x]

\* C2: two goroutines that extend one shared record r with their own calls
\* and send do not interfere: every emitted record carries what r emits
\* followed by exactly that goroutine's own pairs, and no cell is stored
\* into by both goroutines.
C2_NoInterference ==
    /\ \A x \in Branches :
          lastCall.from = x =>
              lastCall.fields = LogData(heap, reg["r"]) \o args[x]
    /\ gor["a"].wrote \cap gor["b"].wrote = {}

\* C3: no builder method mutates its receiver: what is observable through
\* the receiver (level, message, field list, hasData, context, key) is the
\* same after the call as before it.
C3_ReceiverUnchanged ==
    [][\A src \in {"log", "r"} :
          Build("r", src) =>
              Observed(heap', reg[src]) = Observed(heap, reg[src])]_vars

C3_Witness ==
    /\ Len(Fields("r")) = 6
    /\ reg["r"].level = "error"
    /\ reg["r"].ctx = WithRequestID(Background, "req-123")
    /\ Observed(heap, reg["log"]) = Observed(heap, NewLoggerWithConfig(cfg))

\* C4: Data is append-only and order-preserving without deduplication: the
\* returned record's field list is the receiver's followed by (key, value),
\* and the list Send emits ends with the record's fields in insertion order,
\* repeated keys included.
C4_DataAppends ==
    [][/\ \A src \in {"log", "r"} : \A p \in Pairs :
             Data("r", src, p[1], p[2]) =>
                 FieldsIn(heap', reg'["r"]) = FieldsIn(heap, reg[src]) \o p
       /\ lastCall'.from = "r" =>
             LET n == Len(lastCall'.fields)
                 m == Len(FieldsIn(heap', reg'["r"]))
             IN  /\ m <= n
                 /\ SubSeq(lastCall'.fields, n - m + 1, n)
                        = FieldsIn(heap', reg'["r"])]_vars

C4_Witness ==
    /\ lastCall.from = "r"
    /\ lastCall.fields =
           << "user_id", "123", "action", "login", "user_id", "123" >>

\* C5: in every record hasData is true exactly when the field list is
\* non-empty.
C5_HasDataIffFields ==
    \A x \in Srcs : reg[x].hasData <=> (Fields(x) # << >>)

C5_Witness ==
    /\ reg["r"].hasData
    /\ Len(Fields("r")) = 4
    /\ ~reg["log"].hasData

\* C6: ErrorData(nil) returns a record observably equal to its receiver;
\* ErrorData(err) with a non-nil err appends exactly the pair
\* ("error", message of err), sets hasData and leaves the rest as it was.
C6_ErrorData ==
    [][\A src \in {"log", "r"} : \A err \in Errs :
          ErrorData("r", src, err) =>
              IF err = Nil
              THEN Observed(heap', reg'["r"]) = Observed(heap, reg[src])
              ELSE Observed(heap', reg'["r"]) =
                       [Observed(heap, reg[src]) EXCEPT
                           !.fields = @ \o << "error", err >>,
                           !.hasData = TRUE]]_vars

C6_Witness ==
    /\ Fields("r") = << "user_id", "123", "error", "test error" >>
    /\ reg["r"].hasData

\* C7: WithContext(ctx) restarts the chain: the returned record is bound to
\* ctx, has an empty level and message, an empty field list with hasData
\* false, and the receiver's engine handle and request-ID key; a Send of it
\* emits nothing of the earlier state.
C7_WithContextResets ==
    [][/\ \A src \in {"log", "r"} : \A ctx \in Ctxs :
             WithContext("r", src, ctx) =>
                 /\ Observed(heap', reg'["r"]) =
                        [level |-> "", message |-> "", fields |-> << >>,
                         hasData |-> FALSE, ctx |-> ctx,
                         requestIDKey |-> reg[src].requestIDKey]
                 /\ reg'["r"].log = reg[src].log
       /\ (reg["r"].level = "" /\ Send("r")) => lastCall' = NoCall]_vars

C7_Witness ==
    /\ reg["r"].ctx = WithRequestID(Background, "req-123")
    /\ reg["r"].level = ""
    /\ reg["r"].message = ""
    /\ ~reg["r"].hasData
    /\ reg["r"].requestIDKey = "trace_id"

\* The key the configuration asks for.
ConfiguredKey ==
    IF cfg.RequestIDKey = "" THEN "request-id" ELSE cfg.RequestIDKey

\* C8: Send emits the correlation field first: with a non-empty request id
\* bound, the list passed to the engine is (key, id) under the configured
\* key followed by the record's fields; with no id bound, or an empty one,
\* it is exactly the record's fields.  Level and message are the record's.
C8_CorrelationFirst ==
    lastCall.from = "r" =>
        /\ lastCall.level = reg["r"].level
        /\ lastCall.msg = reg["r"].message
        /\ reg["r"].ctx = WithRequestID(Background, "req-123") =>
               lastCall.fields = << ConfiguredKey, "req-123" >> \o Fields("r")
        /\ reg["r"].ctx \in { Background, WithRequestID(Background, "") } =>
               lastCall.fields = Fields("r")

C8_Witness ==
    lastCall = [from |-> "r", level |-> "info", msg |-> "msg",
                fields |-> << "request-id", "req-123", "user_id", "123" >>,
                structured |-> TRUE]

\* C9: Send makes the message-only call exactly when the combined list is
\* empty, that is when no id is bound and the record has no field; a
\* structured call always carries a non-empty list.
C9_MessageOnlyIffEmpty ==
    lastCall.from = "r" =>
        /\ lastCall.structured <=> Len(lastCall.fields) > 0
        /\ ~lastCall.structured <=>
               /\ reg["r"].ctx # WithRequestID(Background, "req-123")
               /\ Fields("r") = << >>

C9_Witness ==
    /\ lastCall.from = "r"
    /\ lastCall.structured
    /\ lastCall.fields = << "trace_id", "req-123" >>
    /\ ~reg["r"].hasData

\* C10: the effective request-ID key is "request-id" when the configured key
\* is empty, and for NewLogger(), and the configured string otherwise; every
\* record built from the logger carries it.
C10_EffectiveKey ==
    /\ NewLogger.requestIDKey = "request-id"
    /\ \A x \in Srcs : reg[x].requestIDKey = ConfiguredKey

C10_Witness ==
    /\ cfg.RequestIDKey = ""
    /\ reg["r"].ctx = WithRequestID(Background, "req-123")
    /\ reg["r"].hasData
    /\ reg["r"].level = "warn"

BoundAt(ctx) == { i \in 1..Len(ctx) : ctx[i].key = RequestIDKey }

\* C12: request-id round trip: GetRequestID of a context made by
\* WithRequestID(ctx, id) with a non-empty id is id; of a context with no
\* value under the request-id key, and of one whose value under that key is
\* not a string, it is the empty string; WithRequestID and WithValue leave
\* the context they extend as it was.
C12_RequestIDRoundTrip ==
    /\ cx.got # << >> =>
          LET ctx == cx.ctx
              top == ctx[Len(ctx)]
          IN  /\ (/\ ctx # Background
                  /\ top.key = RequestIDKey
                  /\ top.val.type = "string") => cx.got[1] = top.val.v
              /\ BoundAt(ctx) = { } => cx.got[1] = ""
              /\ (\E i \in BoundAt(ctx) :
                     /\ \A j \in BoundAt(ctx) : j <= i
                     /\ ctx[i].val.type # "string") => cx.got[1] = ""
    /\ cx.ctx # Background =>
          cx.parent = SubSeq(cx.ctx, 1, Len(cx.ctx) - 1)

C12_Witness ==
    /\ cx.got = << "req-123" >>
    /\ Len(cx.ctx) = 3
    /\ cx.ctx[1].val = StringVal("trace-123")
    /\ cx.ctx[2].val = IntVal("42")

\* The severity order of the spec: debug < info < warn < error.
Rank(level) ==
    CHOOSE i \in 1..4 : << "debug", "info", "warn", "error" >>[i] = level

\* The floor the configuration asks for.
Floor ==
    IF cfg.LogLevel \in { "debug", "info", "warn", "error" }
    THEN cfg.LogLevel ELSE "debug"

\* The sinks the configuration asks for.
ActiveSinks ==
    CASE cfg.OutputMode = "terminal" -> { "terminal" }
      [] cfg.OutputMode = "file"     -> { "file" }
      [] cfg.OutputMode = "both"     -> { "terminal", "file" }
      [] OTHER                       -> { "terminal" }

\* Between two states: sink s has received exactly one more entry, made of
\* the call the step made on the engine.
Received(s) ==
    /\ Len(out'[s]) = Len(out[s]) + 1
    /\ SubSeq(out'[s], 1, Len(out[s])) = out[s]
    /\ LET e == out'[s][Len(out'[s])]
       IN  /\ e.level = lastCall'.level
           /\ e.msg = lastCall'.msg
           /\ e.fields = lastCall'.fields

\* C13: severity floor: the floor is the configured LogLevel, or debug for an
\* unrecognized or empty one; a Send of a record at level debug, info, warn
\* or error writes the entry to every active sink when the level is at or
\* above the floor, and writes to no sink when it is below.
C13_SeverityFloor ==
    [][(/\ lastCall'.from = "r"
        /\ lastCall'.level \in { "debug", "info", "warn", "error" }) =>
          IF Rank(lastCall'.level) >= Rank(Floor)
          THEN /\ \A s \in ActiveSinks : Received(s)
               /\ \A s \in { "terminal", "file" } \ ActiveSinks :
                      out'[s] = out[s]
          ELSE out' = out]_vars

C13_Witness ==
    /\ cfg.LogLevel = "warn"
    /\ cfg.OutputMode = "both"
    /\ lastCall.from = "r"
    /\ lastCall.level = "debug"
    /\ Len(out.terminal) = 1
    /\ out.terminal[1].level = "error"
    /\ out.file = out.terminal

\* C14: Fatal and Panic are never filtered and end the normal flow: for every
\* floor a Send of a fatal or panic record writes the entry to every active
\* sink; in the state where the process has exited or panicked the entry is
\* written; the Send leaves the process exited (fatal) or panicking (panic),
\* and no step follows in which a sink receives anything.
C14_FatalPanic ==
    [][/\ (/\ lastCall'.from = "r"
           /\ lastCall'.level \in { "fatal", "panic" }) =>
             /\ \A s \in ActiveSinks : Received(s)
             /\ proc' = IF lastCall'.level = "fatal" THEN "exited"
                        ELSE "panicked"
       /\ proc # "running" => out' = out /\ proc' = proc]_vars

C14_Witness ==
    /\ cfg.LogLevel = "error"
    /\ cfg.OutputMode = "both"
    /\ proc = "exited"
    /\ Len(out.file) = 2
    /\ out.file[1].level = "error"
    /\ out.file[2].level = "fatal"
    /\ out.terminal = out.file

\* C16: fan-out in mode both: after any sequence of Send calls the sequence
\* of entries written to the terminal sink equals the sequence written to
\* the file sink.
C16_FanOut ==
    cfg.OutputMode = "both" => out.terminal = out.file

C16_Witness ==
    /\ cfg.OutputMode = "both"
    /\ cfg.LogLevel = "info"
    /\ Len(out.terminal) = 2
    /\ out.terminal[1].level = "info"
    /\ out.terminal[2].level = "warn"
    /\ out.terminal[2].fields = << "request-id", "req-123" >>
    /\ out.file = out.terminal

\* C19: Close is best-effort: it calls Sync and, whether Sync succeeds or
\* fails, returns normally with the process running and the records and the
\* sinks as they were; a Close after a Close is possible and behaves alike.
C19_CloseBestEffort ==
    [][/\ closed' # closed =>
             /\ Len(closed') = Len(closed) + 1
             /\ proc' = "running"
             /\ reg' = reg
             /\ out' = out
       /\ (/\ closed # << >>
           /\ Len(closed) < MaxCloses
           /\ proc = "running") => ENABLED Close("log")]_vars

C19_Witness ==
    /\ Len(closed) = 2
    /\ closed[1] # "ok"
    /\ closed[2] # "ok"
    /\ proc = "running"
    /\ Len(out.terminal) = 1

C15_OutputRouting ==
    /\ ActiveSinks # { }
    /\ \A x \in Srcs :
          LET cores == reg[x].log.cores
          IN  /\ { cores[i] : i \in 1..Len(cores) } = ActiveSinks
              /\ Len(cores) = Cardinality(ActiveSinks)
              /\ "file" \in ActiveSinks =>
                     \E w \in reg[x].log.writers :
                         /\ reg[x].log.writers = { w }
                         /\ w.Filename[1] =
                                IF fs.mkdirFails THEN "." ELSE cfg.LogDir
    /\ \A s \in { "terminal", "file" } \ ActiveSinks : out[s] = << >>
    /\ lastCall.from = "r" => \A s \in ActiveSinks : out[s] # << >>

C15_Witness ==
    /\ cfg.OutputMode = "stdout"
    /\ cfg.LogLevel = "verbose"
    /\ fs.mkdirFails
    /\ Len(out.terminal) = 2
    /\ out.file = << >>

\* C17: caller visibility is configurable and preserved: a logger built
\* with ShowCaller false attaches no call-site location to its entries, one
\* built with ShowCaller true attaches it, NewLogger() attaches it, and the
\* record WithContext returns has the visibility of its receiver.
C17_CallerVisibility ==
    /\ NewLogger.log.caller
    /\ \A x \in Srcs : reg[x].log.caller = cfg.ShowCaller
    /\ \A s \in { "terminal", "file" } : \A i \in 1..Len(out[s]) :
          out[s][i].caller = cfg.ShowCaller

\* The value of a rotation setting: the configured one when a policy is
\* present and the value is not zero, else the default.
Setting(configured, default) ==
    IF cfg.LogRotation # << >> /\ configured # 0 THEN configured ELSE default

\* C18: rotation policy defaulting: with LogRotation nil the file sink is
\* built with MaxSize 10, MaxBackups 3, MaxAge 28 and Compress true; with
\* LogRotation present, each of MaxSize, MaxBackups and MaxAge is the
\* configured value when that is not zero and its default when it is.
C18_RotationDefaults ==
    \A x \in Srcs : \A w \in reg[x].log.writers :
        LET rot == IF cfg.LogRotation = << >>
                   THEN [MaxSize |-> 0, MaxBackups |-> 0, MaxAge |-> 0]
                   ELSE cfg.LogRotation[1]
        IN  /\ w.MaxSize = Setting(rot.MaxSize, 10)
            /\ w.MaxBackups = Setting(rot.MaxBackups, 3)
            /\ w.MaxAge = Setting(rot.MaxAge, 28)
            /\ cfg.LogRotation = << >> => w.Compress

\* C21: only Send emits: no builder method (WithContext, Debug, Info, Warn,
\* Error, Fatal, Panic, Data, ErrorData) makes a call on the engine, writes
\* to a sink, ends the process or panics; a step that changes a sink or the
\* process is a Send, so a record at level fatal or panic that is not sent
\* has no effect on the control flow.
C21_OnlySendEmits ==
    [][/\ (\E src \in {"log", "r"} : Build("r", src)) =>
             /\ out' = out
             /\ proc' = proc
             /\ lastCall' = NoCall
       /\ (out' # out \/ proc' # proc) => lastCall'.from = "r"]_vars

C21_Witness ==
    /\ reg["r"].level = "panic"
    /\ proc = "running"
    /\ lastCall = NoCall
    /\ Len(out.terminal) = 1
    /\ out.terminal[1].level = "warn"
    /\ out.terminal[1].fields = << "error", "test error" >>
    /\ out.file = out.terminal

\* The positions of sink s that hold bytes written by goroutine x.
Mine(s, x) == { i \in 1..Len(out[s]) : out[s][i].by = x }

\* C22: concurrent Send is safe: under every interleaving of the Send calls
\* of two goroutines on records of one logger, every write to a sink is
\* whole (its second half follows its first with nothing between), and a
\* goroutine whose Send has returned has written its entry exactly once to
\* every active sink when its level passes the floor, and nothing otherwise;
\* the order of the two goroutines' entries is free in each sink.
C22_ConcurrentSend ==
    \A s \in { "terminal", "file" } :
        /\ \A i \in 1..Len(out[s]) :
              IF out[s][i].part = 1
              THEN i < Len(out[s]) =>
                       /\ out[s][i + 1].part = 2
                       /\ out[s][i + 1].by = out[s][i].by
                       /\ out[s][i + 1].entry = out[s][i].entry
              ELSE /\ i > 1
                   /\ out[s][i - 1].part = 1
                   /\ out[s][i - 1].by = out[s][i].by
        /\ \A x \in Branches :
              /\ Cardinality(Mine(s, x)) <= 2
              /\ s \notin ActiveSinks => Mine(s, x) = { }
              /\ gor[x].pc = "idle" => Mine(s, x) = { }
              /\ (gor[x].pc = "done" /\ s \in ActiveSinks) =>
                    IF /\ reg[x].level \in { "debug", "info", "warn", "error" }
                       /\ Rank(reg[x].level) >= Rank(Floor)
                    THEN /\ Cardinality(Mine(s, x)) = 2
                         /\ \A i \in Mine(s, x) :
                               /\ out[s][i].entry.level = reg[x].level
                               /\ out[s][i].entry.msg = reg[x].message
                               /\ out[s][i].entry.fields =
                                      LogData(heap, reg[x])
                    ELSE Mine(s, x) = { }

C22_Witness ==
    /\ cfg.OutputMode = "both"
    /\ cfg.LogLevel = "info"
    /\ gor["a"].pc = "done"
    /\ gor["b"].pc = "done"
    /\ Len(out.terminal) = 4
    /\ Len(out.file) = 4
    /\ out.terminal[1].by = "a"
    /\ out.file[1].by = "b"
    /\ out.terminal[1].entry.fields = << "request-id", "req-123" >>

\* What a caller observes through the record r.<Level>(msg) of a receiver
\* observed as o.
Levelled(o, level, msg) == [o EXCEPT !.level = level, !.message = msg]

\* C23: a level setter sets exactly level and message: Debug, Info, Warn,
\* Error, Fatal, Panic (msg) return a record at level "debug", "info",
\* "warn", "error", "fatal", "panic" with message msg and with the field
\* list, hasData, context and request-ID key of the receiver,
\* whatever level the receiver had (the last setter wins); Send calls the
\* engine at the level and with the message of the record, its fields last.
C23_LevelSetters ==
    [][/\ \A src \in {"log", "r"} : \A msg \in Msgs :
             LET before == Observed(heap, reg[src])
                 after  == Observed(heap', reg'["r"])
             IN  /\ Debug("r", src, msg) =>
                        after = Levelled(before, "debug", msg)
                 /\ Info("r", src, msg) =>
                        after = Levelled(before, "info", msg)
                 /\ Warn("r", src, msg) =>
                        after = Levelled(before, "warn", msg)
                 /\ Error("r", src, msg) =>
                        after = Levelled(before, "error", msg)
                 /\ Fatal("r", src, msg) =>
                        after = Levelled(before, "fatal", msg)
                 /\ Panic("r", src, msg) =>
                        after = Levelled(before, "panic", msg)
       /\ lastCall'.from = "r" =>
             LET n == Len(lastCall'.fields)
                 m == Len(Fields("r"))
             IN  /\ lastCall'.level = reg["r"].level
                 /\ lastCall'.msg = reg["r"].message
                 /\ m <= n
                 /\ SubSeq(lastCall'.fields, n - m + 1, n) = Fields("r")]_vars

C23_Witness ==
    /\ lastCall.from = "r"
    /\ lastCall.level = "error"
    /\ lastCall.msg = "msg"
    /\ lastCall.fields = << "user_id", "123" >>
    /\ reg["r"].hasData
    /\ Len(out.file) = 1
    /\ out.file[1].level = "error"
    /\ out.file[1].fields = << "user_id", "123" >>

\* The name of the log file of a logger constructed at clock reading t.
FileNameAt(t) ==
    << IF fs.mkdirFails THEN "." ELSE cfg.LogDir, << "logger-", Date(t) >>,
       ".log" >>

\* C24: the log file name is fixed at construction: the file sink's path is
\* <LogDir>/logger-<date>.log with the date of the construction, which is
\* in the first day; whatever the date has become, the writer of every
\* record keeps that name, every Send that reaches the file sink writes to
\* the file of that name, and no other file is opened.
C24_FileNameFixed ==
    /\ \A x \in Srcs : \A w \in reg[x].log.writers :
          w.Filename = FileNameAt(0)
    /\ out.files \subseteq { FileNameAt(0) }
    /\ out.file # << >> => out.files = { FileNameAt(0) }

C24_Witness ==
    /\ Date(fs.now) = 2
    /\ cfg.OutputMode = "file"
    /\ cfg.LogLevel = "warn"
    /\ lastCall.from = "r"
    /\ lastCall.level = "error"
    /\ Len(out.file) = 1
    /\ out.files = { << "test_logs", << "logger-", 0 >>, ".log" >> }

\* The id of the last WithRequestID on the way to ctx, "" when there is none.
LastBound(ctx) ==
    IF BoundAt(ctx) = { } THEN ""
    ELSE ctx[CHOOSE i \in BoundAt(ctx) : \A j \in BoundAt(ctx) : j <= i].val.v

\* C25: the request id is stored under a key of a type of its own: a value
\* bound under the string "gologger-request-id", or under any other string
\* key, is never what GetRequestID returns and never hides an id bound with
\* WithRequestID, before or after it; Send emits the correlation field of
\* the id bound with WithRequestID, or none, and never that value.
C25_TypedKey ==
    /\ cx.got # << >> =>
          /\ cx.got[1] # "other"
          /\ cx.got[1] = LastBound(cx.ctx)
    /\ lastCall.from = "r" =>
          /\ \A i \in 1..Len(lastCall.fields) : lastCall.fields[i] # "other"
          /\ lastCall.fields =
                 IF LastBound(reg["r"].ctx) = "" THEN << >>
                 ELSE << "request-id", LastBound(reg["r"].ctx) >>

C25_Witness ==
    /\ Len(cx.ctx) = 3
    /\ cx.ctx[1].key = StringKey
    /\ cx.ctx[2] = [key |-> RequestIDKey, val |-> StringVal("req-123")]
    /\ cx.ctx[3].key = StringKey
    /\ cx.got = << "req-123" >>
    /\ lastCall.from = "r"
    /\ lastCall.fields = << "request-id", "req-123" >>

\* C26: Send of a record whose level was never set (the value NewLogger,
\* NewLoggerWithConfig or WithContext returned, with or without Data and
\* ErrorData calls after it) makes no call on the engine: no sink changes,
\* the process goes on running and Send returns.
C26_UnsetLevelSend ==
    [][(/\ gor["a"].pc = "idle"
        /\ gor'["a"].pc = "done"
        /\ reg["a"].level = "") =>
          /\ lastCall' = NoCall
          /\ out' = out
          /\ proc' = "running"
          /\ reg' = reg
          /\ heap' = heap]_vars

C26_Witness ==
    /\ gor["a"].pc = "done"
    /\ reg["a"].level = ""
    /\ reg["a"].ctx = WithRequestID(Background, "req-123")
    /\ Fields("a") = << "user_id", "123", "error", "test error" >>
    /\ out.terminal = << >>
    /\ out.file = << >>
    /\ proc = "running"

IsRequestID(b) == b.key = RequestIDKey

\* The ids bound with WithRequestID on the way to ctx, outermost first.
IdsOf(ctx) == SelectSeq(ctx, IsRequestID)

\* C28: rebinding and empty ids: when WithRequestID was applied more than
\* once on the way to a context, GetRequestID returns the id bound last and
\* Send emits that id; when the id bound last is the empty string, Send
\* emits no correlation field and makes the message-only call, as with no
\* id bound, whatever ids were bound before it.
C28_RebindAndEmpty ==
    /\ (cx.got # << >> /\ IdsOf(cx.ctx) # << >>) =>
          cx.got[1] = IdsOf(cx.ctx)[Len(IdsOf(cx.ctx))].val.v
    /\ lastCall.from = "r" =>
          LET ids == IdsOf(reg["r"].ctx)
          IN  IF ids = << >> \/ ids[Len(ids)].val.v = ""
              THEN /\ lastCall.fields = << >>
                   /\ ~lastCall.structured
              ELSE /\ lastCall.fields =
                          << "request-id", ids[Len(ids)].val.v >>
                   /\ lastCall.structured

C28_Witness ==
    /\ IdsOf(reg["r"].ctx) =
           << [key |-> RequestIDKey, val |-> StringVal("req-123")],
              [key |-> RequestIDKey, val |-> StringVal("trace-123")],
              [key |-> RequestIDKey, val |-> StringVal("")] >>
    /\ cx.got = << "" >>
    /\ lastCall.from = "r"
    /\ lastCall.fields = << >>

\* C29: records obtained from separate WithContext calls never share field
\* storage: when each goroutine starts its chain with its own
\* log.WithContext(ctx) and appends Data and ErrorData pairs, then under
\* every interleaving the field list of its record, between calls, is
\* exactly its own pairs in order, what it sends is the correlation pair of
\* its own context followed by them, and the two records never have the
\* same backing array.
C29_OwnStorage ==
    /\ \A x \in Branches :
          /\ gor[x].pc \in { "idle", "done" } => Fields(x) = args[x]
          /\ lastCall.from = x =>
                lastCall.fields =
                    (IF GetRequestID(reg[x].ctx) = "" THEN << >>
                     ELSE << "request-id", GetRequestID(reg[x].ctx) >>)
                        \o args[x]
    /\ (reg["a"].data.ptr # 0 /\ reg["b"].data.ptr # 0) =>
          reg["a"].data.ptr # reg["b"].data.ptr

C29_Witness ==
    /\ lastCall.from = "a"
    /\ Len(lastCall.fields) = 10
    /\ lastCall.fields[1] = "request-id"
    /\ Len(Fields("b")) = 8
    /\ gor["b"].pc = "idle"
    /\ reg["a"].data.cap = 8
    /\ reg["b"].data.cap = 8

\* The strings the program passes as keys: the keys of Data, the key of
\* ErrorData and the request-ID keys; no value passed is one of them.
KeyStrings ==
    { p[1] : p \in Pairs } \cup { "error" }
        \cup { NewLoggerWithConfig(c).requestIDKey : c \in Configs }

\* An alternation of key and value: even length, a key at every odd place
\* (counting from 1) and a value at every even one.
Paired(list) ==
    /\ Len(list) % 2 = 0
    /\ \A i \in 1..Len(list) : (i % 2 = 1) <=> (list[i] \in KeyStrings)

\* C30: key/value pairing: the field list of every record has even length
\* with a key at the first place of every pair, and so has the combined
\* list Send passes to the engine (correlation pair, then fields); the
\* engine never receives a key without a value or a value where a key
\* belongs.
C30_Pairing ==
    /\ \A x \in Srcs : Paired(Fields(x))
    /\ lastCall.from = "r" =>
          /\ Paired(lastCall.fields)
          /\ Len(lastCall.fields) \in
                 { Len(Fields("r")), Len(Fields("r")) + 2 }

C30_Witness ==
    /\ lastCall.from = "r"
    /\ lastCall.fields =
           << "trace_id", "req-123", "user_id", "123",
              "error", "test error", "action", "login" >>

====
